---- MODULE Spec2Model ----
(***************************************************************************)
(* Model of furi/core/message_queue.c: the FuriMessageQueue wrapper around *)
(* a statically allocated FreeRTOS queue.                                  *)
(*                                                                         *)
(* The wrapper functions (furi_message_queue_alloc, _put, _get,            *)
(* _get_capacity, _get_message_size, _get_count, _get_space, _reset) are   *)
(* translated from message_queue.c.  The kernel primitives they call       *)
(* (xQueueCreateStatic, xQueueSendToBack, xQueueReceive, their FromISR     *)
(* variants, xQueueReset, the tick) are not part of message_queue.c; they  *)
(* are modelled from the design document: a ring buffer with head, tail    *)
(* and count, a producer wait-set and a consumer wait-set, each kernel     *)
(* attempt being one critical section.  A second, finer model takes the    *)
(* task-context kernel calls step by step, so that the interrupt handler   *)
(* runs between the steps that are outside a critical section.             *)
(***************************************************************************)
EXTENDS Integers, Sequences, FiniteSets, TLC

(* ---------------------------- bounds ----------------------------------- *)
MaxCapacity == 2      \* msg_count given to furi_message_queue_alloc is in 1..MaxCapacity
MaxMsg      == 2      \* message values are 1..MaxMsg
MaxTimeout  == 1      \* finite timeouts are 0..MaxTimeout ticks
NumTasks    == 2      \* tasks 1..NumTasks; caller 0 is the interrupt handler
MaxLog      == 3      \* puts recorded by the single-producer/single-consumer run

(* --------------------------- vocabulary -------------------------------- *)
NULL  == 0
BUF   == 1                                  \* a non-null output buffer for get
Msgs  == 1..MaxMsg
Tasks == 1..NumTasks
ISR   == 0

\* FuriWaitForever / portMAX_DELAY: larger than every finite timeout
portMAX_DELAY == MaxTimeout + 1
Timeouts == 0..portMAX_DELAY

FuriStatusOk             == "FuriStatusOk"
FuriStatusErrorTimeout   == "FuriStatusErrorTimeout"
FuriStatusErrorResource  == "FuriStatusErrorResource"
FuriStatusErrorParameter == "FuriStatusErrorParameter"
FuriStatusErrorISR       == "FuriStatusErrorISR"

pdPASS        == "pdPASS"
errQUEUE_FULL == "errQUEUE_FULL"
errQUEUE_EMPTY == "errQUEUE_EMPTY"

VARIABLES
    uxLength,                \* capacity, fixed at creation
    buffer,                  \* message slots 0..uxLength-1
    head,                    \* next slot to read
    tail,                    \* next slot to write
    uxMessagesWaiting,       \* count
    xTasksWaitingToSend,     \* producer wait-set
    xTasksWaitingToReceive,  \* consumer wait-set
    call,                    \* per task: the put/get call it is inside, if any
    last,                    \* the call that returned in the last step, if any
    role,                    \* single-producer/single-consumer run: who puts, who gets
    putLog,                  \* single-producer/single-consumer run: messages put with Ok
    getLog,                  \* single-producer/single-consumer run: messages got with Ok
    uxItemSize,              \* message size in bytes, fixed at creation
    life,                    \* "none" before alloc, then "created", "oversize" or "halted"
    allocSize,               \* bytes requested from malloc by alloc (base-256 digits)
    crit,                    \* the task inside a critical section, 0 if none
    reg,                     \* per task: the count read inside its critical section
    abs,                     \* the queue of the sequential order of the calls
    outLog                   \* messages that left the queue: got with Ok or discarded by reset

queue == <<uxLength, buffer, head, tail, uxMessagesWaiting>>
waits == <<xTasksWaitingToSend, xTasksWaitingToReceive>>
logs  == <<role, putLog, getLog>>
vars  == <<uxLength, buffer, head, tail, uxMessagesWaiting,
           xTasksWaitingToSend, xTasksWaitingToReceive, call, last,
           role, putLog, getLog,
           uxItemSize, life, allocSize, crit, reg, abs, outLog>>
alloc == <<uxItemSize, life, allocSize>>
fine  == <<crit, reg, abs>>

\* a task that is not inside put or get
Idle == [op |-> "none", msg |-> 0, timeout |-> 0, left |-> 0, st |-> "idle",
         waited |-> FALSE, avail |-> FALSE, late |-> FALSE, lost |-> FALSE]

\* no call returned in this step
NoEvent == [op |-> "none", irq |-> FALSE, who |-> 0, arg |-> 0, timeout |-> 0,
            stat |-> "none", out |-> 0, waited |-> FALSE, elapsed |-> 0,
            avail |-> FALSE, late |-> FALSE, lost |-> FALSE, woke |-> 0]

\* the local values of a kernel call: the count it read, the message it copied out
NoReg == [cnt |-> 0, out |-> 0]

\* the messages stored, oldest first
RECURSIVE Stored(_, _)
Stored(h, n) == IF n = 0 THEN <<>> ELSE <<buffer[h]>> \o Stored((h + 1) % uxLength, n - 1)
Contents == Stored(head, uxMessagesWaiting)

(* ------------------- message_queue.c: the wrapper ---------------------- *)

\* furi_message_queue_put / _get reach the kernel call only past the parameter checks
\* a variant of put_attempts that forgets the timeout check of the interrupt branch
put_attempts_any_timeout(irq, msg_ptr, timeout) ==
    IF irq THEN ~(msg_ptr = NULL) ELSE ~(msg_ptr = NULL)

put_attempts(irq, msg_ptr, timeout) ==
    IF irq THEN ~((msg_ptr = NULL) \/ (timeout # 0)) ELSE ~(msg_ptr = NULL)

\* a variant of get_attempts that forgets the null check of the task branch
get_attempts_null_ok(irq, msg_ptr, timeout) ==
    IF irq THEN ~((msg_ptr = NULL) \/ (timeout # 0)) ELSE TRUE

get_attempts(irq, msg_ptr, timeout) ==
    IF irq THEN ~((msg_ptr = NULL) \/ (timeout # 0)) ELSE ~(msg_ptr = NULL)

\* a variant of furi_message_queue_put that does not look at the kernel call's result
furi_message_queue_put_unchecked(irq, msg_ptr, timeout, res) ==
    IF irq
    THEN IF (msg_ptr = NULL) \/ (timeout # 0) THEN FuriStatusErrorParameter ELSE FuriStatusOk
    ELSE IF msg_ptr = NULL THEN FuriStatusErrorParameter ELSE FuriStatusOk

\* a variant of furi_message_queue_put with the test of the kernel result inverted
furi_message_queue_put_inverted(irq, msg_ptr, timeout, res) ==
    IF irq
    THEN IF (msg_ptr = NULL) \/ (timeout # 0)
         THEN FuriStatusErrorParameter
         ELSE IF res = pdPASS THEN FuriStatusErrorResource ELSE FuriStatusOk
    ELSE IF msg_ptr = NULL
         THEN FuriStatusErrorParameter
         ELSE IF res = pdPASS
              THEN IF timeout # 0 THEN FuriStatusErrorTimeout ELSE FuriStatusErrorResource
              ELSE FuriStatusOk

\* a variant of furi_message_queue_put that reports every task-context failure as a timeout
furi_message_queue_put_always_timeout(irq, msg_ptr, timeout, res) ==
    IF irq
    THEN IF (msg_ptr = NULL) \/ (timeout # 0)
         THEN FuriStatusErrorParameter
         ELSE IF res # pdPASS THEN FuriStatusErrorResource ELSE FuriStatusOk
    ELSE IF msg_ptr = NULL
         THEN FuriStatusErrorParameter
         ELSE IF res # pdPASS THEN FuriStatusErrorTimeout ELSE FuriStatusOk

\* a variant of furi_message_queue_put with the two task-context failure statuses swapped
furi_message_queue_put_swapped(irq, msg_ptr, timeout, res) ==
    IF irq
    THEN IF (msg_ptr = NULL) \/ (timeout # 0)
         THEN FuriStatusErrorParameter
         ELSE IF res # pdPASS THEN FuriStatusErrorResource ELSE FuriStatusOk
    ELSE IF msg_ptr = NULL
         THEN FuriStatusErrorParameter
         ELSE IF res # pdPASS
              THEN IF timeout # 0 THEN FuriStatusErrorResource ELSE FuriStatusErrorTimeout
              ELSE FuriStatusOk

\* a variant of furi_message_queue_put with the test of the interrupt branch inverted
furi_message_queue_put_isr_inverted(irq, msg_ptr, timeout, res) ==
    IF irq
    THEN IF (msg_ptr = NULL) \/ (timeout # 0)
         THEN FuriStatusErrorParameter
         ELSE IF res = pdPASS THEN FuriStatusErrorResource ELSE FuriStatusOk
    ELSE IF msg_ptr = NULL
         THEN FuriStatusErrorParameter
         ELSE IF res # pdPASS
              THEN IF timeout # 0 THEN FuriStatusErrorTimeout ELSE FuriStatusErrorResource
              ELSE FuriStatusOk

\* furi_message_queue_put: the status returned, res being the kernel call's result
furi_message_queue_put(irq, msg_ptr, timeout, res) ==
    IF irq
    THEN IF (msg_ptr = NULL) \/ (timeout # 0)
         THEN FuriStatusErrorParameter
         ELSE IF res # pdPASS THEN FuriStatusErrorResource ELSE FuriStatusOk
    ELSE IF msg_ptr = NULL
         THEN FuriStatusErrorParameter
         ELSE IF res # pdPASS
              THEN IF timeout # 0 THEN FuriStatusErrorTimeout ELSE FuriStatusErrorResource
              ELSE FuriStatusOk

\* a variant of furi_message_queue_get that does not look at the kernel call's result
furi_message_queue_get_unchecked(irq, msg_ptr, timeout, res) ==
    IF irq
    THEN IF (msg_ptr = NULL) \/ (timeout # 0) THEN FuriStatusErrorParameter ELSE FuriStatusOk
    ELSE IF msg_ptr = NULL THEN FuriStatusErrorParameter ELSE FuriStatusOk

\* a variant of furi_message_queue_get with the test of the kernel result inverted
furi_message_queue_get_inverted(irq, msg_ptr, timeout, res) ==
    IF irq
    THEN IF (msg_ptr = NULL) \/ (timeout # 0)
         THEN FuriStatusErrorParameter
         ELSE IF res = pdPASS THEN FuriStatusErrorResource ELSE FuriStatusOk
    ELSE IF msg_ptr = NULL
         THEN FuriStatusErrorParameter
         ELSE IF res = pdPASS
              THEN IF timeout # 0 THEN FuriStatusErrorTimeout ELSE FuriStatusErrorResource
              ELSE FuriStatusOk

\* a variant of furi_message_queue_get with the two task-context failure statuses swapped
furi_message_queue_get_swapped(irq, msg_ptr, timeout, res) ==
    IF irq
    THEN IF (msg_ptr = NULL) \/ (timeout # 0)
         THEN FuriStatusErrorParameter
         ELSE IF res # pdPASS THEN FuriStatusErrorResource ELSE FuriStatusOk
    ELSE IF msg_ptr = NULL
         THEN FuriStatusErrorParameter
         ELSE IF res # pdPASS
              THEN IF timeout # 0 THEN FuriStatusErrorResource ELSE FuriStatusErrorTimeout
              ELSE FuriStatusOk

\* furi_message_queue_get: the status returned, res being the kernel call's result
furi_message_queue_get(irq, msg_ptr, timeout, res) ==
    IF irq
    THEN IF (msg_ptr = NULL) \/ (timeout # 0)
         THEN FuriStatusErrorParameter
         ELSE IF res # pdPASS THEN FuriStatusErrorResource ELSE FuriStatusOk
    ELSE IF msg_ptr = NULL
         THEN FuriStatusErrorParameter
         ELSE IF res # pdPASS
              THEN IF timeout # 0 THEN FuriStatusErrorTimeout ELSE FuriStatusErrorResource
              ELSE FuriStatusOk

\* uxQueueMessagesWaiting and uxQueueMessagesWaitingFromISR: the count, read whole
uxQueueMessagesWaiting == uxMessagesWaiting

\* uxQueueSpacesAvailable: capacity minus count inside a critical section
uxQueueSpacesAvailable == uxLength - uxMessagesWaiting

\* furi_message_queue_get_count
furi_message_queue_get_count(irq) ==
    IF irq THEN uxQueueMessagesWaiting ELSE uxQueueMessagesWaiting

\* a variant of furi_message_queue_get_space reading the message size (uxDummy4[2])
\* where the length (uxDummy4[1]) is meant
furi_message_queue_get_space_item_size(irq) ==
    IF irq THEN uxItemSize - uxMessagesWaiting ELSE uxQueueSpacesAvailable

\* a variant of furi_message_queue_get_space with the operands of the subtraction swapped
furi_message_queue_get_space_swapped(irq) ==
    IF irq THEN uxMessagesWaiting - uxLength ELSE uxQueueSpacesAvailable

\* furi_message_queue_get_space: in interrupt context the wrapper subtracts the two
\* container words itself (unsigned: a result below 0 here is a wrapped value in C)
furi_message_queue_get_space(irq) ==
    IF irq THEN uxLength - uxMessagesWaiting ELSE uxQueueSpacesAvailable

\* furi_message_queue_reset: the status returned
furi_message_queue_reset(irq) ==
    IF irq THEN FuriStatusErrorISR ELSE FuriStatusOk

(* --------------------- the kernel queue primitives --------------------- *)

\* a variant of prvCopyDataToQueue that does not wrap tail at the end of the buffer
prvCopyDataToQueue_no_wrap(m) ==
    /\ buffer' = [buffer EXCEPT ![tail] = m]
    /\ tail' = tail + 1
    /\ uxMessagesWaiting' = uxMessagesWaiting + 1
    /\ UNCHANGED <<uxLength, head>>

\* copy a message into the slot at tail
prvCopyDataToQueue(m) ==
    /\ buffer' = [buffer EXCEPT ![tail] = m]
    /\ tail' = (tail + 1) % uxLength
    /\ uxMessagesWaiting' = uxMessagesWaiting + 1
    /\ UNCHANGED <<uxLength, head>>

\* remove the message in the slot at head (the caller has copied buffer[head] out)
prvCopyDataFromQueue ==
    /\ head' = (head + 1) % uxLength
    /\ uxMessagesWaiting' = uxMessagesWaiting - 1
    /\ UNCHANGED <<uxLength, buffer, tail>>

\* the waiter a wake-up removes from a wait-set: one of its members (the scheduler
\* picks by priority, which the queue does not know), nobody (0) if it is empty
WakeOne(S) == IF S = {} THEN {0} ELSE S

\* xTaskRemoveFromEventList: w becomes ready to run
Woken(c, w) == IF w = 0 THEN c ELSE [c EXCEPT ![w].st = "ready"]

\* bookkeeping of what happened to the queue while a call was in progress:
\* avail = the complementary operation made progress before the timeout ran out,
\* late = it did so after the timeout ran out, lost = a competing operation
\* (another put for a put; another get or a discarding reset for a get) succeeded
Progress(c) == IF c.left > 0 THEN [c EXCEPT !.avail = TRUE] ELSE [c EXCEPT !.late = TRUE]
Compete(c)  == [c EXCEPT !.lost = TRUE]

NotePut(c, self) ==
    [t \in DOMAIN c |->
        IF t = self \/ c[t].op = "none" THEN c[t]
        ELSE IF c[t].op = "put" THEN Compete(c[t]) ELSE Progress(c[t])]

NoteGet(c, self) ==
    [t \in DOMAIN c |->
        IF t = self \/ c[t].op = "none" THEN c[t]
        ELSE IF c[t].op = "get" THEN Compete(c[t]) ELSE Progress(c[t])]

NoteReset(c) ==
    [t \in DOMAIN c |->
        IF c[t].op = "none" THEN c[t]
        ELSE IF c[t].op = "put" THEN Progress(c[t])
        ELSE IF uxMessagesWaiting > 0 THEN Compete(c[t]) ELSE c[t]]

\* the record of a call that returns: c is the caller's call record
Returned(op, irq, who, c, arg, stat, out) ==
    [op |-> op, irq |-> irq, who |-> who, arg |-> arg, timeout |-> c.timeout,
     stat |-> stat, out |-> out, waited |-> c.waited,
     elapsed |-> IF c.timeout = portMAX_DELAY THEN 0 ELSE c.timeout - c.left,
     avail |-> c.avail, late |-> c.late, lost |-> c.lost, woke |-> 0]

\* the record of a call that returns having made task w ready (0: nobody)
Waking(ev, w) == [ev EXCEPT !.woke = w]

NewCall(op, msg_ptr, timeout) ==
    [op |-> op, msg |-> msg_ptr, timeout |-> timeout, left |-> timeout, st |-> "ready",
     waited |-> FALSE, avail |-> FALSE, late |-> FALSE, lost |-> FALSE]

\* xQueueSendToBack by task t: one attempt inside a critical section, then return
\* or suspension on the producer wait-set
xQueueSendToBack(t, c) ==
    IF uxMessagesWaiting < uxLength
    THEN \E w \in WakeOne(xTasksWaitingToReceive) :
            /\ prvCopyDataToQueue(c.msg)
            /\ xTasksWaitingToReceive' = xTasksWaitingToReceive \ {w}
            /\ xTasksWaitingToSend' = xTasksWaitingToSend
            /\ call' = [Woken(NotePut(call, t), w) EXCEPT ![t] = Idle]
            /\ last' = Returned("put", FALSE, t, c, c.msg,
                           furi_message_queue_put(FALSE, c.msg, c.timeout, pdPASS), 0)
    ELSE IF c.left = 0
    THEN /\ UNCHANGED <<queue, waits>>
         /\ call' = [call EXCEPT ![t] = Idle]
         /\ last' = Returned("put", FALSE, t, c, c.msg,
                        furi_message_queue_put(FALSE, c.msg, c.timeout, errQUEUE_FULL), 0)
    ELSE /\ UNCHANGED <<queue, xTasksWaitingToReceive>>
         /\ xTasksWaitingToSend' = xTasksWaitingToSend \cup {t}
         /\ call' = [call EXCEPT ![t] = [c EXCEPT !.st = "blocked", !.waited = TRUE]]
         /\ last' = NoEvent

\* xQueueSendToBackFromISR: one attempt, never suspends
xQueueSendToBackFromISR(c) ==
    IF uxMessagesWaiting < uxLength
    THEN \E w \in WakeOne(xTasksWaitingToReceive) :
            /\ prvCopyDataToQueue(c.msg)
            /\ xTasksWaitingToReceive' = xTasksWaitingToReceive \ {w}
            /\ xTasksWaitingToSend' = xTasksWaitingToSend
            /\ call' = Woken(NotePut(call, ISR), w)
            /\ last' = Waking(Returned("put", TRUE, ISR, c, c.msg,
                                  furi_message_queue_put(TRUE, c.msg, c.timeout, pdPASS), 0), w)
    ELSE /\ UNCHANGED <<queue, waits, call>>
         /\ last' = Returned("put", TRUE, ISR, c, c.msg,
                        furi_message_queue_put(TRUE, c.msg, c.timeout, errQUEUE_FULL), 0)

\* xQueueReceive by task t: one attempt inside a critical section, then return
\* or suspension on the consumer wait-set
xQueueReceive(t, c) ==
    IF uxMessagesWaiting > 0
    THEN \E w \in WakeOne(xTasksWaitingToSend) :
            /\ prvCopyDataFromQueue
            /\ xTasksWaitingToSend' = xTasksWaitingToSend \ {w}
            /\ xTasksWaitingToReceive' = xTasksWaitingToReceive
            /\ call' = [Woken(NoteGet(call, t), w) EXCEPT ![t] = Idle]
            /\ last' = Returned("get", FALSE, t, c, c.msg,
                           furi_message_queue_get(FALSE, c.msg, c.timeout, pdPASS),
                           buffer[head])
    ELSE IF c.left = 0
    THEN /\ UNCHANGED <<queue, waits>>
         /\ call' = [call EXCEPT ![t] = Idle]
         /\ last' = Returned("get", FALSE, t, c, c.msg,
                        furi_message_queue_get(FALSE, c.msg, c.timeout, errQUEUE_EMPTY), 0)
    ELSE /\ UNCHANGED <<queue, xTasksWaitingToSend>>
         /\ xTasksWaitingToReceive' = xTasksWaitingToReceive \cup {t}
         /\ call' = [call EXCEPT ![t] = [c EXCEPT !.st = "blocked", !.waited = TRUE]]
         /\ last' = NoEvent

\* xQueueReceiveFromISR: one attempt, never suspends
xQueueReceiveFromISR(c) ==
    IF uxMessagesWaiting > 0
    THEN \E w \in WakeOne(xTasksWaitingToSend) :
            /\ prvCopyDataFromQueue
            /\ xTasksWaitingToSend' = xTasksWaitingToSend \ {w}
            /\ xTasksWaitingToReceive' = xTasksWaitingToReceive
            /\ call' = Woken(NoteGet(call, ISR), w)
            /\ last' = Returned("get", TRUE, ISR, c, c.msg,
                           furi_message_queue_get(TRUE, c.msg, c.timeout, pdPASS),
                           buffer[head])
    ELSE /\ UNCHANGED <<queue, waits, call>>
         /\ last' = Returned("get", TRUE, ISR, c, c.msg,
                        furi_message_queue_get(TRUE, c.msg, c.timeout, errQUEUE_EMPTY), 0)

\* xQueueReset: empties the queue and wakes one suspended producer
xQueueReset ==
    \E w \in WakeOne(xTasksWaitingToSend) :
        /\ uxMessagesWaiting' = 0
        /\ head' = 0
        /\ tail' = 0
        /\ UNCHANGED <<uxLength, buffer>>
        /\ xTasksWaitingToSend' = xTasksWaitingToSend \ {w}
        /\ xTasksWaitingToReceive' = xTasksWaitingToReceive
        /\ call' = Woken(NoteReset(call), w)

(* ------------------------------ actions -------------------------------- *)

\* furi_message_queue_put called by task t
TaskPut(t, msg_ptr, timeout) ==
    /\ call[t].st = "idle"
    /\ IF put_attempts(FALSE, msg_ptr, timeout)
       THEN xQueueSendToBack(t, NewCall("put", msg_ptr, timeout))
       ELSE /\ UNCHANGED <<queue, waits, call>>
            /\ last' = Returned("put", FALSE, t, NewCall("put", msg_ptr, timeout), msg_ptr,
                           furi_message_queue_put(FALSE, msg_ptr, timeout, pdPASS), 0)

\* task t, woken or timed out inside put, runs again
TaskPutResume(t) ==
    /\ call[t].op = "put"
    /\ call[t].st = "ready"
    /\ xQueueSendToBack(t, call[t])

\* furi_message_queue_put called from the interrupt handler
IsrPut(msg_ptr, timeout) ==
    IF put_attempts(TRUE, msg_ptr, timeout)
    THEN xQueueSendToBackFromISR(NewCall("put", msg_ptr, timeout))
    ELSE /\ UNCHANGED <<queue, waits, call>>
         /\ last' = Returned("put", TRUE, ISR, NewCall("put", msg_ptr, timeout), msg_ptr,
                        furi_message_queue_put(TRUE, msg_ptr, timeout, pdPASS), 0)

\* furi_message_queue_get called by task t
TaskGet(t, msg_ptr, timeout) ==
    /\ call[t].st = "idle"
    /\ IF get_attempts(FALSE, msg_ptr, timeout)
       THEN xQueueReceive(t, NewCall("get", msg_ptr, timeout))
       ELSE /\ UNCHANGED <<queue, waits, call>>
            /\ last' = Returned("get", FALSE, t, NewCall("get", msg_ptr, timeout), msg_ptr,
                           furi_message_queue_get(FALSE, msg_ptr, timeout, pdPASS), 0)

\* task t, woken or timed out inside get, runs again
TaskGetResume(t) ==
    /\ call[t].op = "get"
    /\ call[t].st = "ready"
    /\ xQueueReceive(t, call[t])

\* furi_message_queue_get called from the interrupt handler
IsrGet(msg_ptr, timeout) ==
    IF get_attempts(TRUE, msg_ptr, timeout)
    THEN xQueueReceiveFromISR(NewCall("get", msg_ptr, timeout))
    ELSE /\ UNCHANGED <<queue, waits, call>>
         /\ last' = Returned("get", TRUE, ISR, NewCall("get", msg_ptr, timeout), msg_ptr,
                        furi_message_queue_get(TRUE, msg_ptr, timeout, pdPASS), 0)

\* a variant of the task-context reset that returns Ok without calling xQueueReset
TaskReset_no_kernel(t) ==
    /\ call[t].st = "idle"
    /\ UNCHANGED <<queue, waits, call>>
    /\ last' = Returned("reset", FALSE, t, Idle, 0, furi_message_queue_reset(FALSE), 0)

\* furi_message_queue_reset called by task t
TaskReset(t) ==
    /\ call[t].st = "idle"
    /\ xQueueReset
    /\ last' = Returned("reset", FALSE, t, Idle, 0, furi_message_queue_reset(FALSE), 0)

\* a variant of the interrupt-context reset that resets the queue all the same
IsrResetCall_resets ==
    /\ xQueueReset
    /\ last' = Returned("reset", TRUE, ISR, Idle, 0, furi_message_queue_reset(TRUE), 0)

\* furi_message_queue_reset called from the interrupt handler
IsrResetCall ==
    /\ UNCHANGED <<queue, waits, call>>
    /\ last' = Returned("reset", TRUE, ISR, Idle, 0, furi_message_queue_reset(TRUE), 0)

\* furi_message_queue_get_count, by an idle task (irq = FALSE) or the interrupt handler
GetCount(who) ==
    /\ who # ISR => call[who].st = "idle"
    /\ UNCHANGED <<queue, waits, call>>
    /\ last' = Returned("count", who = ISR, who, Idle, 0, "none",
                   furi_message_queue_get_count(who = ISR))

\* furi_message_queue_get_space, by an idle task or the interrupt handler
GetSpace(who) ==
    /\ who # ISR => call[who].st = "idle"
    /\ UNCHANGED <<queue, waits, call>>
    /\ last' = Returned("space", who = ISR, who, Idle, 0, "none",
                   furi_message_queue_get_space(who = ISR))

\* a task inside put or get with a finite timeout that has not run out
Timed(c) == c.op # "none" /\ c.timeout # portMAX_DELAY /\ c.left > 0

\* the tick interrupt: time passes for every call with a finite timeout; a suspended
\* task whose timeout runs out leaves its wait-set and becomes ready
Expiring == {t \in DOMAIN call : Timed(call[t]) /\ call[t].left = 1 /\ call[t].st = "blocked"}

xTaskIncrementTick ==
    /\ \E t \in DOMAIN call : Timed(call[t])
    /\ call' = [t \in DOMAIN call |->
                  IF Timed(call[t])
                  THEN [call[t] EXCEPT !.left = @ - 1,
                                       !.st = IF t \in Expiring THEN "ready" ELSE @]
                  ELSE call[t]]
    /\ xTasksWaitingToSend' = xTasksWaitingToSend \ Expiring
    /\ xTasksWaitingToReceive' = xTasksWaitingToReceive \ Expiring
    /\ UNCHANGED queue
    /\ last' = NoEvent

(* --------------------------- allocation -------------------------------- *)

\* uint32_t and, on the target, size_t: four bytes
WordBytes == 4

\* sizeof(FuriMessageQueue): the StaticQueue_t container (the flexible buffer adds nothing)
sizeof_FuriMessageQueue == 80

\* unsigned numbers as sequences of base-256 digits, least significant digit first
Digit(a, i) == IF i \in 1..Len(a) THEN a[i] ELSE 0

RECURSIVE ToDigits(_, _)
ToDigits(x, n) == IF n = 0 THEN <<>> ELSE <<x % 256>> \o ToDigits(x \div 256, n - 1)

RECURSIVE AddCarry(_, _, _)
AddCarry(a, b, i) ==
    IF i = 1 THEN 0
    ELSE (Digit(a, i - 1) + Digit(b, i - 1) + AddCarry(a, b, i - 1)) \div 256

\* a + b kept to n digits: the sum modulo 256^n
Add(a, b, n) == [i \in 1..n |-> (Digit(a, i) + Digit(b, i) + AddCarry(a, b, i)) % 256]

RECURSIVE Coef(_, _, _, _)
Coef(a, b, i, j) ==
    IF j = 0 THEN 0 ELSE Digit(a, j) * Digit(b, i - j + 1) + Coef(a, b, i, j - 1)

RECURSIVE MulCarry(_, _, _)
MulCarry(a, b, i) ==
    IF i = 1 THEN 0 ELSE (Coef(a, b, i - 1, i - 1) + MulCarry(a, b, i - 1)) \div 256

\* a * b kept to n digits: the product modulo 256^n
Mul(a, b, n) == [i \in 1..n |-> (Coef(a, b, i, i) + MulCarry(a, b, i)) % 256]

\* a widened to n digits
Widen(a, n) == [i \in 1..n |-> Digit(a, i)]

uint32(x) == ToDigits(x, WordBytes)

\* the argument of malloc: sizeof(FuriMessageQueue) + msg_count * msg_size, the product
\* in uint32_t and the sum in size_t
malloc_size(msg_count, msg_size) ==
    Add(uint32(sizeof_FuriMessageQueue),
        Mul(uint32(msg_count), uint32(msg_size), WordBytes), WordBytes)

\* the same sum and product without a width: two words hold the product, one more
\* digit the sum
ExactSize(msg_count, msg_size) ==
    Add(uint32(sizeof_FuriMessageQueue),
        Mul(uint32(msg_count), uint32(msg_size), 2 * WordBytes), 2 * WordBytes + 1)

\* the fields of StaticQueue_t that the wrapper reads through uxDummy4[0..2]
uxDummy4(i) ==
    CASE i = 0 -> uxMessagesWaiting
      [] i = 1 -> uxLength
      [] i = 2 -> uxItemSize

furi_message_queue_get_capacity == uxDummy4(1)

furi_message_queue_get_message_size == uxDummy4(2)

\* xQueueCreateStatic: an empty queue of msg_count messages of msg_size bytes; the
\* storage of a queue longer than MaxCapacity is not represented
xQueueCreateStatic(msg_count, msg_size) ==
    /\ uxLength' = msg_count
    /\ uxItemSize' = msg_size
    /\ buffer' = IF msg_count <= MaxCapacity THEN [i \in 0..(msg_count - 1) |-> 0] ELSE <<>>
    /\ life' = IF msg_count <= MaxCapacity THEN "created" ELSE "oversize"
    /\ head' = 0
    /\ tail' = 0
    /\ uxMessagesWaiting' = 0
    /\ xTasksWaitingToSend' = {}
    /\ xTasksWaitingToReceive' = {}

AllocEvent(irq, msg_count, msg_size) ==
    [NoEvent EXCEPT !.op = "alloc", !.irq = irq, !.arg = <<msg_count, msg_size>>]

\* furi_check on the context and the arguments
alloc_checks_no_size(irq, msg_count, msg_size) == (~irq) /\ msg_count > 0

alloc_checks(irq, msg_count, msg_size) == (~irq) /\ msg_count > 0 /\ msg_size > 0

furi_message_queue_alloc(irq, msg_count, msg_size) ==
    /\ life = "none"
    /\ last' = AllocEvent(irq, msg_count, msg_size)
    /\ IF alloc_checks(irq, msg_count, msg_size)
       THEN /\ allocSize' = malloc_size(msg_count, msg_size)
            /\ xQueueCreateStatic(msg_count, msg_size)
       ELSE /\ life' = "halted"
            /\ UNCHANGED <<queue, waits, uxItemSize, allocSize>>
    /\ UNCHANGED call

\* furi_message_queue_get_capacity, by an idle task or the interrupt handler
GetCapacity(who) ==
    /\ who # ISR => call[who].st = "idle"
    /\ UNCHANGED <<queue, waits, call>>
    /\ last' = Returned("capacity", who = ISR, who, Idle, 0, "none",
                   furi_message_queue_get_capacity)

\* furi_message_queue_get_message_size, by an idle task or the interrupt handler
GetMessageSize(who) ==
    /\ who # ISR => call[who].st = "idle"
    /\ UNCHANGED <<queue, waits, call>>
    /\ last' = Returned("message_size", who = ISR, who, Idle, 0, "none",
                   furi_message_queue_get_message_size)

(* --------------------------- specification ----------------------------- *)

\* furi_message_queue_alloc(msg_count, msg_size) from task context: an empty queue
InitQueue ==
    /\ uxLength \in 1..MaxCapacity
    /\ buffer = [i \in 0..(uxLength - 1) |-> 0]
    /\ head = 0
    /\ tail = 0
    /\ uxMessagesWaiting = 0
    /\ xTasksWaitingToSend = {}
    /\ xTasksWaitingToReceive = {}
    /\ call = [t \in Tasks |-> Idle]
    /\ last = NoEvent
    /\ uxItemSize = 1
    /\ life = "created"
    /\ allocSize = malloc_size(uxLength, uxItemSize)
    /\ crit = 0
    /\ reg = [t \in Tasks |-> NoReg]
    /\ abs = <<>>
    /\ outLog = <<>>

Init ==
    /\ InitQueue
    /\ role = [prod |-> 0, cons |-> 0]
    /\ putLog = <<>>
    /\ getLog = <<>>

PutFromTask ==
    /\ \E t \in Tasks, m \in Msgs \cup {NULL}, to \in Timeouts : TaskPut(t, m, to)
    /\ UNCHANGED <<logs, alloc, fine, outLog>>
PutResume ==
    /\ \E t \in Tasks : TaskPutResume(t)
    /\ UNCHANGED <<logs, alloc, fine, outLog>>
PutFromIsr ==
    /\ \E m \in Msgs \cup {NULL}, to \in Timeouts : IsrPut(m, to)
    /\ UNCHANGED <<logs, alloc, fine, outLog>>
GetFromTask ==
    /\ \E t \in Tasks, p \in {NULL, BUF}, to \in Timeouts : TaskGet(t, p, to)
    /\ UNCHANGED <<logs, alloc, fine, outLog>>
GetResume ==
    /\ \E t \in Tasks : TaskGetResume(t)
    /\ UNCHANGED <<logs, alloc, fine, outLog>>
GetFromIsr ==
    /\ \E p \in {NULL, BUF}, to \in Timeouts : IsrGet(p, to)
    /\ UNCHANGED <<logs, alloc, fine, outLog>>
ResetFromTask ==
    /\ \E t \in Tasks : TaskReset(t)
    /\ UNCHANGED <<logs, alloc, fine, outLog>>
ResetFromIsr ==
    /\ IsrResetCall
    /\ UNCHANGED <<logs, alloc, fine, outLog>>
CountQuery ==
    /\ \E who \in Tasks \cup {ISR} : GetCount(who)
    /\ UNCHANGED <<logs, alloc, fine, outLog>>
SpaceQuery ==
    /\ \E who \in Tasks \cup {ISR} : GetSpace(who)
    /\ UNCHANGED <<logs, alloc, fine, outLog>>
CapacityQuery ==
    /\ \E who \in Tasks \cup {ISR} : GetCapacity(who)
    /\ UNCHANGED <<logs, alloc, fine, outLog>>
MessageSizeQuery ==
    /\ \E who \in Tasks \cup {ISR} : GetMessageSize(who)
    /\ UNCHANGED <<logs, alloc, fine, outLog>>
Tick ==
    /\ xTaskIncrementTick
    /\ UNCHANGED <<logs, alloc, fine, outLog>>

Next ==
    \/ PutFromTask
    \/ PutResume
    \/ PutFromIsr
    \/ GetFromTask
    \/ GetResume
    \/ GetFromIsr
    \/ ResetFromTask
    \/ ResetFromIsr
    \/ CountQuery
    \/ SpaceQuery
    \/ CapacityQuery
    \/ MessageSizeQuery
    \/ Tick

Spec == Init /\ [][Next]_vars

(* ------------- single producer, single consumer, no reset -------------- *)

\* the messages of the puts and gets that returned Ok, in order
LogStep ==
    /\ putLog' = IF last'.op = "put" /\ last'.stat = FuriStatusOk
                 THEN Append(putLog, last'.arg) ELSE putLog
    /\ getLog' = IF last'.op = "get" /\ last'.stat = FuriStatusOk
                 THEN Append(getLog, last'.out) ELSE getLog
    /\ role' = role
    /\ UNCHANGED <<alloc, fine, outLog>>

InitFifo ==
    /\ InitQueue
    /\ role \in [prod : Tasks \cup {ISR}, cons : Tasks \cup {ISR}]
    /\ putLog = <<>>
    /\ getLog = <<>>

FifoPutTask ==
    /\ role.prod # ISR
    /\ Len(putLog) < MaxLog
    /\ \E m \in Msgs \cup {NULL}, to \in Timeouts : TaskPut(role.prod, m, to)
    /\ LogStep
FifoPutResume ==
    /\ role.prod # ISR
    /\ TaskPutResume(role.prod)
    /\ LogStep
FifoPutIsr ==
    /\ role.prod = ISR
    /\ Len(putLog) < MaxLog
    /\ \E m \in Msgs \cup {NULL}, to \in Timeouts : IsrPut(m, to)
    /\ LogStep
FifoGetTask ==
    /\ role.cons # ISR
    /\ \E p \in {NULL, BUF}, to \in Timeouts : TaskGet(role.cons, p, to)
    /\ LogStep
FifoGetResume ==
    /\ role.cons # ISR
    /\ TaskGetResume(role.cons)
    /\ LogStep
FifoGetIsr ==
    /\ role.cons = ISR
    /\ \E p \in {NULL, BUF}, to \in Timeouts : IsrGet(p, to)
    /\ LogStep
FifoTick ==
    /\ xTaskIncrementTick
    /\ LogStep

NextFifo ==
    \/ FifoPutTask
    \/ FifoPutResume
    \/ FifoPutIsr
    \/ FifoGetTask
    \/ FifoGetResume
    \/ FifoGetIsr
    \/ FifoTick

SpecFifo == InitFifo /\ [][NextFifo]_vars

(* ------ one consumer waiting forever, producers in both contexts ------- *)

Consumer  == 1
Producers == Tasks \ {Consumer}

WakeGet ==
    /\ TaskGet(Consumer, BUF, portMAX_DELAY)
    /\ LogStep
WakeGetResume ==
    /\ TaskGetResume(Consumer)
    /\ LogStep
WakePutTask ==
    /\ Len(putLog) < MaxLog
    /\ \E t \in Producers, m \in Msgs, to \in Timeouts : TaskPut(t, m, to)
    /\ LogStep
WakePutResume ==
    /\ \E t \in Producers : TaskPutResume(t)
    /\ LogStep
WakePutIsr ==
    /\ Len(putLog) < MaxLog
    /\ \E m \in Msgs : IsrPut(m, 0)
    /\ LogStep
WakeTick ==
    /\ xTaskIncrementTick
    /\ LogStep

NextWake ==
    \/ WakeGet
    \/ WakeGetResume
    \/ WakePutTask
    \/ WakePutResume
    \/ WakePutIsr
    \/ WakeTick

\* the scheduler is fair to the consumer: once ready to run, it runs
SpecWake == Init /\ [][NextWake]_vars /\ WF_vars(WakeGetResume)

(* ------------------------------ creation ------------------------------- *)

\* arguments of alloc: zero, the lengths the model stores, and large values
CountInputs == (0..MaxCapacity) \cup {65536, 2147483647}
SizeInputs  == {0, 1, 4, 65535, 65536, 2147483647}

\* before furi_message_queue_alloc: no queue
InitAlloc ==
    /\ life = "none"
    /\ uxLength = 0
    /\ uxItemSize = 0
    /\ allocSize = <<>>
    /\ buffer = <<>>
    /\ head = 0
    /\ tail = 0
    /\ uxMessagesWaiting = 0
    /\ xTasksWaitingToSend = {}
    /\ xTasksWaitingToReceive = {}
    /\ call = [t \in Tasks |-> Idle]
    /\ last = NoEvent
    /\ role = [prod |-> 0, cons |-> 0]
    /\ putLog = <<>>
    /\ getLog = <<>>
    /\ crit = 0
    /\ reg = [t \in Tasks |-> NoReg]
    /\ abs = <<>>
    /\ outLog = <<>>

AllocCreate ==
    /\ \E irq \in BOOLEAN, msg_count \in CountInputs, msg_size \in SizeInputs :
          furi_message_queue_alloc(irq, msg_count, msg_size)
    /\ UNCHANGED <<logs, fine, outLog>>
AllocPutTask ==
    /\ life = "created"
    /\ \E t \in Tasks, m \in Msgs : TaskPut(t, m, 0)
    /\ UNCHANGED <<logs, alloc, fine, outLog>>
AllocPutIsr ==
    /\ life = "created"
    /\ \E m \in Msgs : IsrPut(m, 0)
    /\ UNCHANGED <<logs, alloc, fine, outLog>>
AllocGetTask ==
    /\ life = "created"
    /\ \E t \in Tasks : TaskGet(t, BUF, 0)
    /\ UNCHANGED <<logs, alloc, fine, outLog>>
AllocGetIsr ==
    /\ life = "created"
    /\ IsrGet(BUF, 0)
    /\ UNCHANGED <<logs, alloc, fine, outLog>>
AllocCapacityQuery ==
    /\ life = "created"
    /\ \E who \in Tasks \cup {ISR} : GetCapacity(who)
    /\ UNCHANGED <<logs, alloc, fine, outLog>>
AllocMessageSizeQuery ==
    /\ life = "created"
    /\ \E who \in Tasks \cup {ISR} : GetMessageSize(who)
    /\ UNCHANGED <<logs, alloc, fine, outLog>>
AllocCountQuery ==
    /\ life = "created"
    /\ \E who \in Tasks \cup {ISR} : GetCount(who)
    /\ UNCHANGED <<logs, alloc, fine, outLog>>

NextAlloc ==
    \/ AllocCreate
    \/ AllocPutTask
    \/ AllocPutIsr
    \/ AllocGetTask
    \/ AllocGetIsr
    \/ AllocCapacityQuery
    \/ AllocMessageSizeQuery
    \/ AllocCountQuery

SpecAlloc == InitAlloc /\ [][NextAlloc]_vars

(* ---------- producers and consumers suspended across a reset ------------ *)

\* a further task, which only calls reset
Supervisor == NumTasks + 1

InitReset ==
    /\ uxLength \in 1..MaxCapacity
    /\ buffer = [i \in 0..(uxLength - 1) |-> 0]
    /\ head = 0
    /\ tail = 0
    /\ uxMessagesWaiting = 0
    /\ xTasksWaitingToSend = {}
    /\ xTasksWaitingToReceive = {}
    /\ call = [t \in Tasks \cup {Supervisor} |-> Idle]
    /\ last = NoEvent
    /\ uxItemSize = 1
    /\ life = "created"
    /\ allocSize = malloc_size(uxLength, uxItemSize)
    /\ crit = 0
    /\ reg = [t \in Tasks |-> NoReg]
    /\ abs = <<>>
    /\ outLog = <<>>
    /\ role = [prod |-> 0, cons |-> 0]
    /\ putLog = <<>>
    /\ getLog = <<>>

ResetPutTask ==
    /\ \E t \in Tasks, to \in Timeouts : TaskPut(t, 1, to)
    /\ UNCHANGED <<logs, alloc, fine, outLog>>
ResetPutResume ==
    /\ \E t \in Tasks : TaskPutResume(t)
    /\ UNCHANGED <<logs, alloc, fine, outLog>>
ResetPutIsr ==
    /\ IsrPut(1, 0)
    /\ UNCHANGED <<logs, alloc, fine, outLog>>
ResetGetTask ==
    /\ \E t \in Tasks, to \in Timeouts : TaskGet(t, BUF, to)
    /\ UNCHANGED <<logs, alloc, fine, outLog>>
ResetGetResume ==
    /\ \E t \in Tasks : TaskGetResume(t)
    /\ UNCHANGED <<logs, alloc, fine, outLog>>
ResetGetIsr ==
    /\ IsrGet(BUF, 0)
    /\ UNCHANGED <<logs, alloc, fine, outLog>>
ResetBySupervisor ==
    /\ TaskReset(Supervisor)
    /\ UNCHANGED <<logs, alloc, fine, outLog>>
ResetTick ==
    /\ xTaskIncrementTick
    /\ UNCHANGED <<logs, alloc, fine, outLog>>

NextReset ==
    \/ ResetPutTask
    \/ ResetPutResume
    \/ ResetPutIsr
    \/ ResetGetTask
    \/ ResetGetResume
    \/ ResetGetIsr
    \/ ResetBySupervisor
    \/ ResetTick

SpecReset == InitReset /\ [][NextReset]_vars

(* ------- any producers and consumers, with the messages accounted ------ *)

\* the messages that leave the queue in this step, each with how it left
Discarded(q) == [i \in 1..Len(q) |-> [msg |-> q[i], by |-> "reset"]]

ConserveStep ==
    /\ putLog' = IF last'.op = "put" /\ last'.stat = FuriStatusOk
                 THEN Append(putLog, last'.arg) ELSE putLog
    /\ getLog' = IF last'.op = "get" /\ last'.stat = FuriStatusOk
                 THEN Append(getLog, last'.out) ELSE getLog
    /\ outLog' = IF last'.op = "get" /\ last'.stat = FuriStatusOk
                 THEN Append(outLog, [msg |-> last'.out, by |-> "get"])
                 ELSE IF last'.op = "reset" /\ last'.stat = FuriStatusOk
                      THEN outLog \o Discarded(Contents)
                      ELSE outLog
    /\ role' = role
    /\ UNCHANGED <<alloc, fine>>

ConservePutTask ==
    /\ Len(putLog) < MaxLog
    /\ \E t \in Tasks, m \in Msgs, to \in Timeouts : TaskPut(t, m, to)
    /\ ConserveStep
ConservePutResume ==
    /\ \E t \in Tasks : TaskPutResume(t)
    /\ ConserveStep
ConservePutIsr ==
    /\ Len(putLog) < MaxLog
    /\ \E m \in Msgs : IsrPut(m, 0)
    /\ ConserveStep
ConserveGetTask ==
    /\ \E t \in Tasks, to \in Timeouts : TaskGet(t, BUF, to)
    /\ ConserveStep
ConserveGetResume ==
    /\ \E t \in Tasks : TaskGetResume(t)
    /\ ConserveStep
ConserveGetIsr ==
    /\ IsrGet(BUF, 0)
    /\ ConserveStep
ConserveResetTask ==
    /\ \E t \in Tasks : TaskReset(t)
    /\ ConserveStep
ConserveResetIsr ==
    /\ IsrResetCall
    /\ ConserveStep
ConserveTick ==
    /\ xTaskIncrementTick
    /\ ConserveStep

NextConserve ==
    \/ ConservePutTask
    \/ ConservePutResume
    \/ ConservePutIsr
    \/ ConserveGetTask
    \/ ConserveGetResume
    \/ ConserveGetIsr
    \/ ConserveResetTask
    \/ ConserveResetIsr
    \/ ConserveTick

SpecConserve == Init /\ [][NextConserve]_vars

(* ------- kernel calls step by step, preempted by the interrupt --------- *)

\* A task-context kernel call is a sequence of steps; between two steps the interrupt
\* handler or another task may run, except inside a critical section (crit # 0), where
\* interrupts are masked and the task cannot be switched out.  call[t].st says where
\* task t is: "ready" (about to enter the critical section of an attempt), "in",
\* "copy", "count", "wake", "fail", "return" inside it, "window" between a failed
\* attempt and the suspension, "blocked" on a wait-set.

\* task t is at step st of a call of op and may run
At(t, op, st) == call[t].op = op /\ call[t].st = st /\ crit \in {0, t}

\* task t moves on to step st
Goto(t, st) == call' = [call EXCEPT ![t].st = st]

\* task t calls put, get, reset, get_count or get_space
FineCall(t, op, msg_ptr, timeout) ==
    /\ call[t].st = "idle"
    /\ crit = 0
    /\ call' = [call EXCEPT ![t] = NewCall(op, msg_ptr, timeout)]
    /\ last' = NoEvent
    /\ UNCHANGED <<queue, waits, crit, reg>>

\* a variant of taskENTER_CRITICAL that masks nothing
taskENTER_CRITICAL_unmasked(t) ==
    /\ call[t].st = "ready"
    /\ crit = 0
    /\ crit' = 0
    /\ Goto(t, "in")
    /\ last' = NoEvent
    /\ UNCHANGED <<queue, waits, reg>>

\* taskENTER_CRITICAL at the start of an attempt
taskENTER_CRITICAL(t) ==
    /\ call[t].st = "ready"
    /\ crit = 0
    /\ crit' = t
    /\ Goto(t, "in")
    /\ last' = NoEvent
    /\ UNCHANGED <<queue, waits, reg>>

\* the attempt reads uxMessagesWaiting and decides
ReadCount(t) ==
    /\ call[t].st = "in"
    /\ call[t].op \in {"put", "get", "count", "space"}
    /\ crit \in {0, t}
    /\ reg' = [reg EXCEPT ![t].cnt = uxMessagesWaiting]
    /\ Goto(t, CASE call[t].op = "put" ->
                        IF uxMessagesWaiting < uxLength THEN "copy" ELSE "fail"
                 [] call[t].op = "get" ->
                        IF uxMessagesWaiting > 0 THEN "copy" ELSE "fail"
                 [] OTHER -> "return")
    /\ last' = NoEvent
    /\ UNCHANGED <<queue, waits, crit>>

\* put: the message is copied into the slot at tail
PutCopy(t) ==
    /\ At(t, "put", "copy")
    /\ buffer' = [buffer EXCEPT ![tail] = call[t].msg]
    /\ tail' = (tail + 1) % uxLength
    /\ Goto(t, "count")
    /\ last' = NoEvent
    /\ UNCHANGED <<uxLength, head, uxMessagesWaiting, waits, crit, reg>>

\* put: uxMessagesWaiting = the count read + 1
PutCount(t) ==
    /\ At(t, "put", "count")
    /\ uxMessagesWaiting' = reg[t].cnt + 1
    /\ Goto(t, "wake")
    /\ last' = NoEvent
    /\ UNCHANGED <<uxLength, buffer, head, tail, waits, crit, reg>>

\* put: one suspended consumer is made ready, the critical section ends, put returns
PutWake(t) ==
    /\ At(t, "put", "wake")
    /\ \E w \in WakeOne(xTasksWaitingToReceive) :
          /\ xTasksWaitingToReceive' = xTasksWaitingToReceive \ {w}
          /\ call' = [Woken(call, w) EXCEPT ![t] = Idle]
    /\ crit' = 0
    /\ last' = Returned("put", FALSE, t, call[t], call[t].msg,
                   furi_message_queue_put(FALSE, call[t].msg, call[t].timeout, pdPASS), 0)
    /\ reg' = [reg EXCEPT ![t] = NoReg]
    /\ UNCHANGED <<queue, xTasksWaitingToSend>>

\* get: the message in the slot at head is copied out
GetCopy(t) ==
    /\ At(t, "get", "copy")
    /\ reg' = [reg EXCEPT ![t].out = buffer[head]]
    /\ head' = (head + 1) % uxLength
    /\ Goto(t, "count")
    /\ last' = NoEvent
    /\ UNCHANGED <<uxLength, buffer, tail, uxMessagesWaiting, waits, crit>>

\* get: uxMessagesWaiting = the count read - 1
GetCountDown(t) ==
    /\ At(t, "get", "count")
    /\ uxMessagesWaiting' = reg[t].cnt - 1
    /\ Goto(t, "wake")
    /\ last' = NoEvent
    /\ UNCHANGED <<uxLength, buffer, head, tail, waits, crit, reg>>

\* get: one suspended producer is made ready, the critical section ends, get returns
GetWake(t) ==
    /\ At(t, "get", "wake")
    /\ \E w \in WakeOne(xTasksWaitingToSend) :
          /\ xTasksWaitingToSend' = xTasksWaitingToSend \ {w}
          /\ call' = [Woken(call, w) EXCEPT ![t] = Idle]
    /\ crit' = 0
    /\ last' = Returned("get", FALSE, t, call[t], call[t].msg,
                   furi_message_queue_get(FALSE, call[t].msg, call[t].timeout, pdPASS),
                   reg[t].out)
    /\ reg' = [reg EXCEPT ![t] = NoReg]
    /\ UNCHANGED <<queue, xTasksWaitingToReceive>>

\* put on a full queue, get on an empty one: the critical section ends; with timeout 0
\* the call returns, otherwise the task goes on to suspend itself
AttemptFails(t) ==
    /\ call[t].st = "fail"
    /\ crit \in {0, t}
    /\ crit' = 0
    /\ IF call[t].timeout = 0
       THEN /\ call' = [call EXCEPT ![t] = Idle]
            /\ last' = Returned(call[t].op, FALSE, t, call[t], call[t].msg,
                           IF call[t].op = "put"
                           THEN furi_message_queue_put(FALSE, call[t].msg, 0, errQUEUE_FULL)
                           ELSE furi_message_queue_get(FALSE, call[t].msg, 0, errQUEUE_EMPTY),
                           0)
       ELSE /\ Goto(t, "window")
            /\ last' = NoEvent
    /\ reg' = [reg EXCEPT ![t] = NoReg]
    /\ UNCHANGED <<queue, waits>>

\* a variant of Suspend that does not look at the queue again
Suspend_unchecked(t) ==
    /\ call[t].st = "window"
    /\ crit = 0
    /\ call' = [call EXCEPT ![t].st = "blocked", ![t].waited = TRUE]
    /\ IF call[t].op = "put"
       THEN /\ xTasksWaitingToSend' = xTasksWaitingToSend \cup {t}
            /\ UNCHANGED xTasksWaitingToReceive
       ELSE /\ xTasksWaitingToReceive' = xTasksWaitingToReceive \cup {t}
            /\ UNCHANGED xTasksWaitingToSend
    /\ last' = NoEvent
    /\ UNCHANGED <<queue, crit, reg>>

\* with the scheduler suspended and the queue locked the task looks at the queue
\* again: still full (put) or empty (get), it joins the wait-set and is suspended;
\* otherwise it makes a new attempt
Suspend(t) ==
    /\ call[t].st = "window"
    /\ crit = 0
    /\ IF (call[t].op = "put" /\ uxMessagesWaiting = uxLength)
          \/ (call[t].op = "get" /\ uxMessagesWaiting = 0)
       THEN /\ call' = [call EXCEPT ![t].st = "blocked", ![t].waited = TRUE]
            /\ IF call[t].op = "put"
               THEN /\ xTasksWaitingToSend' = xTasksWaitingToSend \cup {t}
                    /\ UNCHANGED xTasksWaitingToReceive
               ELSE /\ xTasksWaitingToReceive' = xTasksWaitingToReceive \cup {t}
                    /\ UNCHANGED xTasksWaitingToSend
       ELSE /\ Goto(t, "ready")
            /\ UNCHANGED waits
    /\ last' = NoEvent
    /\ UNCHANGED <<queue, crit, reg>>

\* reset: the queue is emptied and one suspended producer made ready, the critical
\* section ends, reset returns
ResetInside(t) ==
    /\ At(t, "reset", "in")
    /\ \E w \in WakeOne(xTasksWaitingToSend) :
          /\ xTasksWaitingToSend' = xTasksWaitingToSend \ {w}
          /\ call' = [Woken(call, w) EXCEPT ![t] = Idle]
    /\ uxMessagesWaiting' = 0
    /\ head' = 0
    /\ tail' = 0
    /\ crit' = 0
    /\ last' = Returned("reset", FALSE, t, Idle, 0, furi_message_queue_reset(FALSE), 0)
    /\ UNCHANGED <<uxLength, buffer, xTasksWaitingToReceive, reg>>

\* get_count, get_space: the critical section ends and the value is returned
QueryReturns(t) ==
    /\ call[t].st = "return"
    /\ crit \in {0, t}
    /\ crit' = 0
    /\ call' = [call EXCEPT ![t] = Idle]
    /\ last' = Returned(call[t].op, FALSE, t, Idle, 0, "none",
                   IF call[t].op = "count" THEN reg[t].cnt ELSE uxLength - reg[t].cnt)
    /\ reg' = [reg EXCEPT ![t] = NoReg]
    /\ UNCHANGED <<queue, waits>>

\* the queue of the sequential order: each call takes effect where it returns
FineStep ==
    /\ abs' = IF last'.op = "put" /\ last'.stat = FuriStatusOk THEN Append(abs, last'.arg)
              ELSE IF last'.op = "get" /\ last'.stat = FuriStatusOk
                   THEN (IF abs = <<>> THEN <<>> ELSE Tail(abs))
              ELSE IF last'.op = "reset" /\ last'.stat = FuriStatusOk THEN <<>>
              ELSE abs
    /\ UNCHANGED <<logs, alloc, outLog>>

PreemptCallPut ==
    /\ \E t \in Tasks, m \in Msgs, to \in {0, portMAX_DELAY} : FineCall(t, "put", m, to)
    /\ FineStep
PreemptCallGet ==
    /\ \E t \in Tasks, to \in {0, portMAX_DELAY} : FineCall(t, "get", BUF, to)
    /\ FineStep
PreemptCallReset ==
    /\ \E t \in Tasks : FineCall(t, "reset", 0, 0)
    /\ FineStep
PreemptCallQuery ==
    /\ \E t \in Tasks, op \in {"count", "space"} : FineCall(t, op, 0, 0)
    /\ FineStep
PreemptEnter ==
    /\ \E t \in Tasks : taskENTER_CRITICAL(t)
    /\ FineStep
PreemptRead ==
    /\ \E t \in Tasks : ReadCount(t)
    /\ FineStep
PreemptPutCopy ==
    /\ \E t \in Tasks : PutCopy(t)
    /\ FineStep
PreemptPutCount ==
    /\ \E t \in Tasks : PutCount(t)
    /\ FineStep
PreemptPutWake ==
    /\ \E t \in Tasks : PutWake(t)
    /\ FineStep
PreemptGetCopy ==
    /\ \E t \in Tasks : GetCopy(t)
    /\ FineStep
PreemptGetCount ==
    /\ \E t \in Tasks : GetCountDown(t)
    /\ FineStep
PreemptGetWake ==
    /\ \E t \in Tasks : GetWake(t)
    /\ FineStep
PreemptFail ==
    /\ \E t \in Tasks : AttemptFails(t)
    /\ FineStep
PreemptSuspend ==
    /\ \E t \in Tasks : Suspend(t)
    /\ FineStep
PreemptReset ==
    /\ \E t \in Tasks : ResetInside(t)
    /\ FineStep
PreemptQuery ==
    /\ \E t \in Tasks : QueryReturns(t)
    /\ FineStep
PreemptIsrPut ==
    /\ crit = 0
    /\ \E m \in Msgs : IsrPut(m, 0)
    /\ UNCHANGED <<crit, reg>>
    /\ FineStep
PreemptIsrGet ==
    /\ crit = 0
    /\ IsrGet(BUF, 0)
    /\ UNCHANGED <<crit, reg>>
    /\ FineStep

NextPreempt ==
    \/ PreemptCallPut
    \/ PreemptCallGet
    \/ PreemptCallReset
    \/ PreemptCallQuery
    \/ PreemptEnter
    \/ PreemptRead
    \/ PreemptPutCopy
    \/ PreemptPutCount
    \/ PreemptPutWake
    \/ PreemptGetCopy
    \/ PreemptGetCount
    \/ PreemptGetWake
    \/ PreemptFail
    \/ PreemptSuspend
    \/ PreemptReset
    \/ PreemptQuery
    \/ PreemptIsrPut
    \/ PreemptIsrGet

SpecPreempt == Init /\ [][NextPreempt]_vars

(* ---- one producer and one consumer waiting forever, step by step ------ *)

\* the consumer is task Consumer; the producer:
Producer == 2

DeadlockCallPut ==
    /\ \E m \in Msgs : FineCall(Producer, "put", m, portMAX_DELAY)
    /\ FineStep
DeadlockCallGet ==
    /\ FineCall(Consumer, "get", BUF, portMAX_DELAY)
    /\ FineStep
\* the steps are those of the calls above; only put by the producer and get by the
\* consumer are ever called
NextDeadlock ==
    \/ DeadlockCallPut
    \/ DeadlockCallGet
    \/ PreemptEnter
    \/ PreemptRead
    \/ PreemptPutCopy
    \/ PreemptPutCount
    \/ PreemptPutWake
    \/ PreemptGetCopy
    \/ PreemptGetCount
    \/ PreemptGetWake
    \/ PreemptFail
    \/ PreemptSuspend
    \/ PreemptIsrPut
    \/ PreemptIsrGet

SpecDeadlock == Init /\ [][NextDeadlock]_vars

(* ------------------------------ claims --------------------------------- *)

\* s is a prefix of t
IsPrefix(s, t) == Len(s) <= Len(t) /\ \A i \in 1..Len(s) : s[i] = t[i]

\* C1: whatever calls were made before, in task or interrupt context, get_count
\* returns a value in 0..capacity and get_space returns a value in 0..capacity
\* (never negative, which in the unsigned C arithmetic is a wrapped value).
C1_CountSpaceInRange ==
    /\ \A irq \in BOOLEAN :
          /\ furi_message_queue_get_count(irq) \in 0..uxLength
          /\ furi_message_queue_get_space(irq) \in 0..uxLength
    /\ last.op \in {"count", "space"} => last.out \in 0..uxLength

\* get_space called from the interrupt handler on a full queue of more than one slot
C1_Witness ==
    /\ last.op = "space"
    /\ last.irq
    /\ last.out = 0
    /\ uxLength > 1

\* C2: with one producer and one consumer and no reset, the messages returned by
\* the gets that returned Ok are at every point a prefix of the messages passed to
\* the puts that returned Ok, in the same order.
C2_Fifo == IsPrefix(getLog, putLog)

\* two different messages were got, and a put had failed on the way
C2_Witness ==
    /\ Len(getLog) >= 2
    /\ getLog[1] # getLog[2]
    /\ last.op = "put"
    /\ last.stat # FuriStatusOk

\* the step returns from a task-context put of a non-null message that found the
\* queue full when it was called
PutOnFullReturns ==
    /\ last'.op = "put"
    /\ ~last'.irq
    /\ last'.arg # NULL
    /\ last'.waited \/ uxMessagesWaiting = uxLength

\* the parts of C3 that do not depend on who else uses the queue
C3_Common ==
    PutOnFullReturns =>
        /\ last'.timeout = 0 => last'.stat = FuriStatusErrorResource /\ ~last'.waited
        /\ last'.stat = FuriStatusErrorTimeout => last'.timeout # 0
        /\ last'.stat = FuriStatusErrorResource => last'.timeout = 0
        /\ last'.stat \in {FuriStatusOk, FuriStatusErrorTimeout, FuriStatusErrorResource}
        /\ (last'.timeout # 0 /\ ~last'.avail /\ ~last'.late) =>
               /\ last'.stat = FuriStatusErrorTimeout
               /\ last'.elapsed = last'.timeout
        /\ last'.stat # FuriStatusOk =>
               /\ uxMessagesWaiting = uxLength
               /\ last'.elapsed = last'.timeout
               /\ UNCHANGED queue

\* C3 as stated: a task-context put of a non-null message on a full queue returns
\* ErrorResource at once for timeout 0, ErrorTimeout for timeout N > 0 when no space
\* frees up within the N ticks, and Ok whenever a get or reset frees space before the
\* N ticks have elapsed.
C3_AsStated ==
    [][/\ C3_Common
       /\ (PutOnFullReturns /\ last'.timeout # 0 /\ last'.avail) =>
              last'.stat = FuriStatusOk]_vars

\* C3 as amended: the same, but a get or reset that frees space before the N ticks
\* have elapsed makes the put return Ok only when no other put has refilled the
\* queue before the suspended put runs again; ErrorTimeout and ErrorResource are
\* returned only with the queue full, only after all N ticks have elapsed, and the
\* choice between them depends only on timeout # 0.
C3_PutOnFull ==
    [][/\ C3_Common
       /\ (PutOnFullReturns /\ last'.timeout # 0 /\ last'.avail /\ ~last'.lost) =>
              last'.stat = FuriStatusOk]_vars

\* a put with a finite timeout N > 0 was suspended on the full queue, a get or reset
\* freed space in time and the put returned Ok
C3_Witness ==
    /\ last.op = "put"
    /\ ~last.irq
    /\ last.waited
    /\ last.timeout \in 1..MaxTimeout
    /\ last.avail
    /\ last.stat = FuriStatusOk

\* the step returns from a task-context get with a non-null buffer that found the
\* queue empty when it was called
GetOnEmptyReturns ==
    /\ last'.op = "get"
    /\ ~last'.irq
    /\ last'.arg # NULL
    /\ last'.waited \/ uxMessagesWaiting = 0

\* the parts of C4 that do not depend on who else uses the queue
C4_Common ==
    GetOnEmptyReturns =>
        /\ last'.timeout = 0 => last'.stat = FuriStatusErrorResource /\ ~last'.waited
        /\ last'.stat = FuriStatusErrorTimeout => last'.timeout # 0
        /\ last'.stat = FuriStatusErrorResource => last'.timeout = 0
        /\ last'.stat \in {FuriStatusOk, FuriStatusErrorTimeout, FuriStatusErrorResource}
        /\ (last'.timeout # 0 /\ ~last'.avail /\ ~last'.late) =>
               /\ last'.stat = FuriStatusErrorTimeout
               /\ last'.elapsed = last'.timeout
        /\ last'.stat # FuriStatusOk =>
               /\ uxMessagesWaiting = 0
               /\ last'.elapsed = last'.timeout
               /\ UNCHANGED queue
        /\ last'.stat = FuriStatusOk =>
               /\ uxMessagesWaiting > 0
               /\ last'.out = Head(Contents)
               /\ Contents' = Tail(Contents)
               /\ uxMessagesWaiting' = uxMessagesWaiting - 1

\* C4 as stated: a task-context get with a non-null buffer on an empty queue returns
\* ErrorResource at once for timeout 0, ErrorTimeout for timeout N > 0 when no message
\* arrives within the N ticks, and Ok with the oldest message, count going down by
\* exactly one, whenever a put happens before the N ticks have elapsed.
C4_AsStated ==
    [][/\ C4_Common
       /\ (GetOnEmptyReturns /\ last'.timeout # 0 /\ last'.avail) =>
              last'.stat = FuriStatusOk]_vars

\* C4 as amended: the same, but a put before the N ticks have elapsed makes the get
\* return Ok only when no other get has taken, and no reset has discarded, the
\* message before the suspended get runs again.
C4_GetOnEmpty ==
    [][/\ C4_Common
       /\ (GetOnEmptyReturns /\ last'.timeout # 0 /\ last'.avail /\ ~last'.lost) =>
              last'.stat = FuriStatusOk]_vars

\* a get with a finite timeout N > 0 was suspended on the empty queue, a put arrived
\* in time and the get returned Ok with a message
C4_Witness ==
    /\ last.op = "get"
    /\ ~last.irq
    /\ last.waited
    /\ last.timeout \in 1..MaxTimeout
    /\ last.avail
    /\ last.stat = FuriStatusOk
    /\ last.out \in Msgs

\* no task becomes suspended and no wait-set grows in this step
NobodySuspended ==
    /\ xTasksWaitingToSend' \subseteq xTasksWaitingToSend
    /\ xTasksWaitingToReceive' \subseteq xTasksWaitingToReceive
    /\ \A t \in Tasks : call'[t].st = "blocked" => call[t].st = "blocked"

\* C5: put or get called from interrupt context with a nonzero timeout or a null
\* message pointer returns ErrorParameter, suspends nobody and leaves count, the
\* stored messages and the wait-sets as they were, whatever the occupancy.
C5_IsrParameter ==
    [][(/\ last'.irq
        /\ last'.op \in {"put", "get"}
        /\ last'.arg = NULL \/ last'.timeout # 0) =>
           /\ last'.stat = FuriStatusErrorParameter
           /\ ~last'.waited
           /\ NobodySuspended
           /\ Contents' = Contents
           /\ UNCHANGED <<queue, waits, call>>]_vars

\* an interrupt-context put with a nonzero timeout and a non-null message returned
\* on a partly filled queue
C5_Witness ==
    /\ last.irq
    /\ last.op = "put"
    /\ last.arg # NULL
    /\ last.timeout # 0
    /\ last.stat = FuriStatusErrorParameter
    /\ uxMessagesWaiting > 0
    /\ uxMessagesWaiting < uxLength

\* C6: put or get called from interrupt context with timeout 0 and a non-null pointer
\* makes one attempt: put on a full queue and get on an empty queue return
\* ErrorResource and change nothing; otherwise the call returns Ok and exactly one
\* message was enqueued at the back or dequeued from the front.  No
\* interrupt-context call puts anybody on a wait-set or suspends anybody.
C6_IsrSingleAttempt ==
    [][/\ (last'.irq /\ last'.op = "put" /\ last'.arg # NULL /\ last'.timeout = 0) =>
              IF uxMessagesWaiting = uxLength
              THEN /\ last'.stat = FuriStatusErrorResource
                   /\ UNCHANGED <<queue, waits, call>>
              ELSE /\ last'.stat = FuriStatusOk
                   /\ Contents' = Append(Contents, last'.arg)
                   /\ uxMessagesWaiting' = uxMessagesWaiting + 1
       /\ (last'.irq /\ last'.op = "get" /\ last'.arg # NULL /\ last'.timeout = 0) =>
              IF uxMessagesWaiting = 0
              THEN /\ last'.stat = FuriStatusErrorResource
                   /\ UNCHANGED <<queue, waits, call>>
              ELSE /\ last'.stat = FuriStatusOk
                   /\ last'.out = Head(Contents)
                   /\ Contents' = Tail(Contents)
                   /\ uxMessagesWaiting' = uxMessagesWaiting - 1
       /\ last'.irq => ~last'.waited /\ NobodySuspended]_vars

\* an interrupt-context get with timeout 0 failed on the empty queue while a task
\* was suspended in get on it
C6_Witness ==
    /\ last.irq
    /\ last.op = "get"
    /\ last.arg # NULL
    /\ last.timeout = 0
    /\ last.stat = FuriStatusErrorResource
    /\ xTasksWaitingToReceive # {}

\* C7: reset from task context returns Ok and leaves count = 0 and get_space =
\* capacity whatever the state before; reset from interrupt context returns
\* ErrorISR and leaves count, the stored messages and both wait-sets unchanged.
C7_Reset ==
    [][last'.op = "reset" =>
          IF last'.irq
          THEN /\ last'.stat = FuriStatusErrorISR
               /\ Contents' = Contents
               /\ UNCHANGED <<queue, waits, call>>
          ELSE /\ last'.stat = FuriStatusOk
               /\ uxMessagesWaiting' = 0
               /\ Contents' = <<>>
               /\ \A irq \in BOOLEAN :
                     /\ furi_message_queue_get_count(irq)' = 0
                     /\ furi_message_queue_get_space(irq)' = uxLength']_vars

\* a task-context reset returned on a queue that had held a message, with a
\* producer suspended on it
C7_Witness ==
    /\ last.op = "reset"
    /\ ~last.irq
    /\ uxMessagesWaiting = 0
    /\ buffer[0] # 0
    /\ \E t \in Tasks : call[t].op = "put" /\ call[t].waited

\* the consumer has been suspended in its wait-forever get, and the message it is
\* to receive next, the (k+1)-th put, m, is stored
StoredForSuspended(k, m) ==
    /\ call[Consumer].op = "get"
    /\ call[Consumer].waited
    /\ call[Consumer].timeout = portMAX_DELAY
    /\ Len(getLog) = k
    /\ Len(putLog) > k
    /\ putLog[k + 1] = m

\* the consumer's get has returned Ok with m as the (k+1)-th message got
ReturnedToConsumer(k, m) ==
    /\ Len(getLog) > k
    /\ getLog[k + 1] = m

\* C8: with a fair scheduler and no competing consumer, once a task is suspended in
\* a wait-forever get on the empty queue and a put succeeds, the suspended get
\* eventually returns Ok with the message that was put; the message never stays
\* stored with the consumer suspended forever.
C8_BlockedConsumerWakes ==
    /\ \A k \in 0..MaxLog : \A m \in Msgs :
          StoredForSuspended(k, m) ~> ReturnedToConsumer(k, m)
    /\ [](\A t \in xTasksWaitingToReceive : uxMessagesWaiting = 0)
    /\ [][(last'.op = "get" /\ last'.stat = FuriStatusOk) => last'.who = Consumer]_vars

\* the consumer, suspended on the empty queue, got the message put afterwards
C8_Witness ==
    /\ last.op = "get"
    /\ last.who = Consumer
    /\ last.waited
    /\ last.timeout = portMAX_DELAY
    /\ last.stat = FuriStatusOk
    /\ getLog = putLog
    /\ Len(getLog) = 1

\* C9: on an empty queue, a put of m with timeout 0 that returned Ok, immediately
\* followed by a get with timeout 0, makes the get return Ok with exactly m and
\* leaves count = 0, for every m and in either calling context.
C9_RoundTrip ==
    [][(/\ last.op = "put"
        /\ last.stat = FuriStatusOk
        /\ last.timeout = 0
        /\ uxMessagesWaiting = 1
        /\ last'.op = "get"
        /\ last'.arg # NULL
        /\ last'.timeout = 0) =>
           /\ last'.stat = FuriStatusOk
           /\ last'.out = last.arg
           /\ uxMessagesWaiting' = 0
           /\ \A irq \in BOOLEAN : furi_message_queue_get_count(irq)' = 0]_vars

\* a task-context get with timeout 0 returned the message just put and emptied the
\* queue, the message having been stored in the last slot of a longer buffer
C9_Witness ==
    /\ last.op = "get"
    /\ ~last.irq
    /\ last.timeout = 0
    /\ last.stat = FuriStatusOk
    /\ last.out = MaxMsg
    /\ uxMessagesWaiting = 0
    /\ head = 0
    /\ uxLength > 1
    /\ buffer[uxLength - 1] = MaxMsg

\* the step returns from a put or get that failed after attempting the queue
FailedAttemptReturns ==
    /\ last'.op \in {"put", "get"}
    /\ last'.stat \in {FuriStatusErrorTimeout, FuriStatusErrorResource}

\* C10: a put or get that fails for lack of space or of a message returns
\* ErrorTimeout when its timeout is not 0 and ErrorResource when it is 0, and has
\* enqueued and dequeued nothing: none of its steps (suspending, timing out,
\* returning) changes count or the stored messages, and once it has returned the
\* caller is in neither wait-set.
C10_FailedCallNoEffect ==
    [][/\ FailedAttemptReturns =>
              /\ last'.stat = IF last'.timeout # 0 THEN FuriStatusErrorTimeout
                              ELSE FuriStatusErrorResource
              /\ last'.elapsed = last'.timeout
              /\ Contents' = Contents
              /\ UNCHANGED queue
              /\ last'.who \notin xTasksWaitingToSend' \cup xTasksWaitingToReceive'
              /\ ~last'.irq => call'[last'.who] = Idle
       /\ last'.op = "none" => Contents' = Contents /\ UNCHANGED queue
       /\ \A t \in Tasks :
              /\ t \in xTasksWaitingToSend' <=> (call'[t].op = "put" /\ call'[t].st = "blocked")
              /\ t \in xTasksWaitingToReceive' <=> (call'[t].op = "get" /\ call'[t].st = "blocked")
              /\ (call'[t].st = "blocked" /\ call'[t].timeout # portMAX_DELAY) =>
                     call'[t].left > 0]_vars

\* a put that was suspended on the full queue timed out
C10_Witness ==
    /\ last.op = "put"
    /\ last.waited
    /\ last.stat = FuriStatusErrorTimeout
    /\ last.elapsed = last.timeout
    /\ uxMessagesWaiting = uxLength

\* C12: create halts, with no queue, when called from interrupt context or with
\* capacity 0 or message size 0; otherwise it returns an empty queue whose
\* get_capacity and get_message_size are the arguments, and they stay so
C12_Create ==
    [][/\ last'.op = "alloc" =>
            IF last'.irq \/ last'.arg[1] = 0 \/ last'.arg[2] = 0
            THEN life' = "halted" /\ UNCHANGED <<queue, waits>>
            ELSE /\ life' \in {"created", "oversize"}
                 /\ \A irq \in BOOLEAN : furi_message_queue_get_count(irq)' = 0
                 /\ furi_message_queue_get_capacity' = last'.arg[1]
                 /\ furi_message_queue_get_message_size' = last'.arg[2]
       /\ life = "halted" => life' = "halted" /\ uxLength' = 0
       /\ life = "created" =>
            /\ furi_message_queue_get_capacity' = furi_message_queue_get_capacity
            /\ furi_message_queue_get_message_size' = furi_message_queue_get_message_size
       /\ last'.op = "capacity" => last'.out = uxLength
       /\ last'.op = "message_size" => last'.out = uxItemSize]_vars

\* a queue of MaxCapacity messages of four bytes has just been created
C12_Witness ==
    /\ last.op = "alloc"
    /\ life = "created"
    /\ last.arg = <<MaxCapacity, 4>>
    /\ furi_message_queue_get_capacity = MaxCapacity
    /\ furi_message_queue_get_message_size = 4

\* C18: whenever create passes its checks, the size it asks of malloc, computed in
\* 32-bit arithmetic, is the exact value of overhead + capacity * message_size
C18_NoWrap ==
    (last.op = "alloc" /\ life # "halted") =>
        Widen(allocSize, 2 * WordBytes + 1) = ExactSize(last.arg[1], last.arg[2])

\* C11: get_space returns capacity - count for the count of the instant of the call, in
\* both contexts, within 0..capacity; a get_count and a get_space with no call between
\* them add up to capacity
C11_SpaceAtOneInstant ==
    [][/\ last'.op = "space" =>
            /\ last'.out = uxLength - uxMessagesWaiting
            /\ last'.out = uxLength' - uxMessagesWaiting'
            /\ last'.out \in 0..uxLength
       /\ (last.op = "count" /\ last'.op = "space") => last.out + last'.out = uxLength
       /\ (last.op = "space" /\ last'.op = "count") => last.out + last'.out = uxLength]_vars

\* a queue of MaxCapacity after MaxCapacity puts and one get: get_space, called from
\* the interrupt handler, returns 1
C11_Witness ==
    /\ uxLength = MaxCapacity
    /\ head = 1
    /\ tail = 0
    /\ uxMessagesWaiting = MaxCapacity - 1
    /\ last.op = "space"
    /\ last.irq
    /\ last.out = 1

\* C14: a caller becomes suspended only inside its own task-context put or get with a
\* nonzero timeout and a non-null pointer, on a queue that is full (put) or empty (get)
\* at that attempt; reset, the four queries, every interrupt-context call and every put
\* or get with timeout 0 return without the caller having been suspended and suspend
\* nobody
C14_SuspendOnlyWhenWaiting ==
    [][/\ \A t \in Tasks :
            (call'[t].st = "blocked" /\ call[t].st # "blocked") =>
                /\ last' = NoEvent
                /\ call'[t].op \in {"put", "get"}
                /\ call'[t].timeout # 0
                /\ call'[t].msg # NULL
                /\ call'[t].op = "put" =>
                      /\ uxMessagesWaiting = uxLength
                      /\ xTasksWaitingToSend' = xTasksWaitingToSend \cup {t}
                /\ call'[t].op = "get" =>
                      /\ uxMessagesWaiting = 0
                      /\ xTasksWaitingToReceive' = xTasksWaitingToReceive \cup {t}
                /\ UNCHANGED queue
                /\ \A u \in Tasks \ {t} : call'[u] = call[u]
       /\ (\/ last'.op \in {"reset", "count", "space", "capacity", "message_size"}
           \/ last'.irq
           \/ (last'.op \in {"put", "get"} /\ last'.timeout = 0)) =>
                /\ ~last'.waited
                /\ NobodySuspended]_vars

\* task 1 has just been suspended in a put on a full queue, task 2 already is
C14_Witness ==
    /\ last = NoEvent
    /\ uxMessagesWaiting = uxLength
    /\ xTasksWaitingToSend = Tasks
    /\ \A t \in Tasks : call[t].st = "blocked" /\ call[t].op = "put"

\* head and tail are slots of the buffer
IndicesInRange ==
    /\ head \in 0..(uxLength - 1)
    /\ tail \in 0..(uxLength - 1)

\* C15 as stated: count == (tail - head) mod capacity in every state, the full queue
\* included
C15_AsStated ==
    /\ IndicesInRange
    /\ uxMessagesWaiting = (tail - head) % uxLength

\* C15: head and tail stay in [0, capacity), count in [0, capacity], and count is
\* (tail - head) mod capacity while the queue is not full; on a full queue head == tail
\* and count == capacity, so count and tail - head agree modulo capacity
C15_RingBuffer ==
    /\ IndicesInRange
    /\ uxMessagesWaiting \in 0..uxLength
    /\ uxMessagesWaiting < uxLength => uxMessagesWaiting = (tail - head) % uxLength
    /\ uxMessagesWaiting = uxLength => head = tail
    /\ uxMessagesWaiting % uxLength = (tail - head) % uxLength

\* a full queue of MaxCapacity whose indices have moved off slot 0
C15_Witness ==
    /\ uxLength = MaxCapacity
    /\ uxMessagesWaiting = uxLength
    /\ head = tail
    /\ head # 0

\* an interrupt-context put stores a message in this step while a consumer is suspended
IsrPutStoresForWaiter ==
    /\ last'.op = "put"
    /\ last'.irq
    /\ uxMessagesWaiting' = uxMessagesWaiting + 1
    /\ xTasksWaitingToReceive # {}

\* the consumer made ready by the interrupt-context put of the last step returns from
\* its get in this step
WokenConsumerReturns ==
    /\ last.op = "put"
    /\ last.irq
    /\ last.stat = FuriStatusOk
    /\ last.woke # 0
    /\ last'.op = "get"
    /\ last'.who = last.woke

\* the put part of C17: the put returns Ok without suspending anybody and makes exactly
\* one suspended consumer ready in the same step
C17_Common ==
    IsrPutStoresForWaiter =>
        /\ last'.stat = FuriStatusOk
        /\ ~last'.waited
        /\ NobodySuspended
        /\ last'.woke \in xTasksWaitingToReceive
        /\ xTasksWaitingToReceive' = xTasksWaitingToReceive \ {last'.woke}
        /\ call[last'.woke].st = "blocked"
        /\ call'[last'.woke].st = "ready"
        /\ call'[last'.woke].op = "get"
        /\ \A t \in Tasks \ {last'.woke} : call'[t].st = call[t].st

ResetReturns ==
    /\ last'.op = "reset"
    /\ ~last'.irq
    /\ last'.stat = FuriStatusOk

\* the timeout of suspended task t runs out in this step
TimesOut(t) ==
    /\ call[t].left = 1
    /\ call'[t].left = 0
    /\ last' = NoEvent

\* the consumer part of C16: a reset wakes no consumer; a suspended consumer leaves
\* its wait-set only in a step that stores a message or when its timeout runs out
C16_Consumers ==
    /\ ResetReturns =>
          /\ xTasksWaitingToReceive' = xTasksWaitingToReceive
          /\ \A t \in xTasksWaitingToReceive : call'[t].st = "blocked"
    /\ \A t \in xTasksWaitingToReceive \ xTasksWaitingToReceive' :
          \/ last'.op = "put" /\ last'.stat = FuriStatusOk
          \/ TimesOut(t)

LeftBy(how) == SelectSeq(outLog, LAMBDA e : e.by = how)

\* C20: count is the number of puts that returned Ok, minus the gets that returned Ok,
\* minus the messages discarded by task-context resets; the messages that left the
\* queue are, one for one and in order, the first messages put, so none is returned
\* twice and none is returned that was not put; the messages put and not yet gone are
\* exactly the ones stored
C20_Conservation ==
    /\ uxMessagesWaiting = Len(putLog) - Len(LeftBy("get")) - Len(LeftBy("reset"))
    /\ Len(outLog) <= Len(putLog)
    /\ \A i \in 1..Len(outLog) : outLog[i].msg = putLog[i]
    /\ Contents = SubSeq(putLog, Len(outLog) + 1, Len(putLog))
    /\ getLog = [i \in 1..Len(LeftBy("get")) |-> LeftBy("get")[i].msg]

\* MaxLog puts have returned Ok; a message was returned by a get, a later one was
\* discarded by a reset and the last one is still stored
C20_Witness ==
    /\ Len(putLog) = MaxLog
    /\ Len(outLog) = MaxLog - 1
    /\ outLog[1].by = "get"
    /\ outLog[Len(outLog)].by = "reset"
    /\ uxMessagesWaiting = 1

\* what the call returning in this step would return if the calls ran one at a time in
\* the order of their returns, on the queue abs of that order
SequentialOutcome ==
    /\ (last'.op = "put" /\ last'.arg # NULL /\ (last'.irq => last'.timeout = 0)) =>
          (last'.stat = FuriStatusOk <=> Len(abs) < uxLength)
    /\ (last'.op = "get" /\ last'.arg # NULL /\ (last'.irq => last'.timeout = 0)) =>
          /\ last'.stat = FuriStatusOk <=> abs # <<>>
          /\ last'.stat = FuriStatusOk => last'.out = Head(abs)
    /\ last'.op = "count" => last'.out = Len(abs)
    /\ last'.op = "space" => last'.out = uxLength - Len(abs)
    /\ last'.op \in {"put", "get"} =>
          last'.stat \in {FuriStatusOk, FuriStatusErrorResource}

\* C13: with the interrupt handler's put and get running between any two steps of the
\* tasks' put, get, reset, get_count and get_space that are not inside a critical
\* section, every call returns what it would return in the sequential order of the
\* returns, and outside critical sections the queue holds what that order leaves
C13_Atomic ==
    [][/\ SequentialOutcome
       /\ crit' = 0 =>
             /\ Contents' = abs'
             /\ uxMessagesWaiting' = Len(abs')
             /\ tail' = (head' + uxMessagesWaiting') % uxLength]_vars

\* an interrupt-context put has just returned Ok while a task was between a failed
\* attempt of get and its suspension, and another task was about to start a put
C13_Witness ==
    /\ last.op = "put"
    /\ last.irq
    /\ last.stat = FuriStatusOk
    /\ \E t \in Tasks : call[t].op = "get" /\ call[t].st = "window"
    /\ \E t \in Tasks : call[t].op = "put" /\ call[t].st = "ready"

\* task t is suspended on a wait-set
Suspended(t) == t \in xTasksWaitingToSend \cup xTasksWaitingToReceive

\* a call of the given kind has changed the count and is about to wake a waiter
WakePending(op) == \E t \in Tasks : call[t].op = op /\ call[t].st = "wake"

\* C19: with one producer task and one consumer task, both waiting forever, and the
\* interrupt handler putting and getting in between, a suspended producer means a full
\* queue or a wake-up on its way, a suspended consumer an empty queue or a wake-up on
\* its way, and the two are never suspended together
C19_NoDeadlock ==
    /\ Suspended(Producer) => (uxMessagesWaiting = uxLength \/ WakePending("get"))
    /\ Suspended(Consumer) => (uxMessagesWaiting = 0 \/ WakePending("put"))
    /\ ~(Suspended(Producer) /\ Suspended(Consumer))
    /\ \A t \in Tasks : Suspended(t) <=> call[t].st = "blocked"

\* the producer is suspended, the queue is no longer full, and the consumer's get is
\* about to wake it
C19_Witness ==
    /\ Suspended(Producer)
    /\ uxMessagesWaiting < uxLength
    /\ call[Consumer].op = "get"
    /\ call[Consumer].st = "wake"

====
